---- MODULE Spec2Model ----
(***************************************************************************)
(* Call routing and WebRTC signaling relay of the RexBot reception server  *)
(* (src/unnamed/part_001, lines 159-462) with the Call collection of       *)
(* src/models/Call.js.                                                     *)
(*                                                                         *)
(* Every socket.io handler is an async function: it runs to its next       *)
(* await, and other handlers run before it resumes.  A handler in flight   *)
(* is a record of the set tasks, holding its position (pc) and its local   *)
(* variables.  A database operation takes effect in one step of its own    *)
(* (the ...Save actions); the code after the await is the next step.       *)
(* Awaits before a handler's first access to shared state are folded into  *)
(* the step that starts the handler.                                       *)
(*                                                                         *)
(* Optional values (a field that may be undefined) are sets of at most one *)
(* element: {} is undefined.                                               *)
(***************************************************************************)
EXTENDS Integers, Sequences, FiniteSets, Bags, TLC

\* ---- bounds of the model ------------------------------------------------
\* events handled in a behaviour of Spec
MaxStarts == 1
MaxLogins == 2
MaxDecisions == 1
\* events handled in a behaviour of SpecLeave
MaxRedecisions == 2
MaxLeaves == 1
\* events handled in a behaviour of SpecRelay
MaxRelays == 2
\* requests recorded as dropped without an answer
MaxUnanswered == 1
\* start-conversation events handled in a behaviour of SpecLobby
MaxVisits == 2
\* events handled in a behaviour of SpecQueue, and the readings of the clock
MaxQueued == 2
MaxNow == 1
\* clicks on Accept Call, offers of the visitor's peer and ICE candidates of the
\* dashboard's peer connection in a behaviour of SpecDashboard
MaxClicks == 1
MaxOffers == 1
MaxCandidates == 1
\* one unit of the model clock in milliseconds
MaxSignals == 3
MaxChats == 6
MaxInFlight == 2
MaxSubmits == 4
TickMs == 500

\* ---- inputs ---------------------------------------------------------------
Sockets == {"s1", "s2", "s3"}
Emails == {"alice", "bob", "carol"}
\* accounts registered with role staff before the sockets connect
StaffEmails == {"alice", "bob"}
Purposes == {"", "Support"}
Decisions == {"accepted", "rejected"}
NotesSet == {"follow-up needed"}
Payloads == {"sdp-a", "sdp-b"}
Kinds == {"offer", "answer", "ice-candidate"}
\* if (conversation.length > 10) (part_001 661, register-script.js 222, 261)
HistoryLimit == 10
\* the conversation ids the chat pages generate
ConversationIds == {"conv_1", "conv_2"}

VARIABLES
    dbConnected,    \* mongoose.connection.readyState === 1
    now,            \* Date.now(), in units of TickMs
    live,           \* socket -> "new" (page not opened yet) | "live" | "gone"
    connectedUsers, \* Map socket.id -> user, in insertion order
    waitingCalls,   \* Map socket.id -> Call document (its _id)
    users,          \* User collection: email -> role ("none" when absent)
    conversations,  \* Conversation collection: the sessionIds stored (unique index)
    calls,          \* Call collection: calls[i] is the document with _id i
    demoCalls,      \* Map sessionId -> demo call (demo mode)
    tasks,          \* handlers suspended at an await
    inbox,          \* socket -> bag of the events delivered to that socket
    sent,           \* bag of the signaling messages the sockets have emitted
    unanswered,     \* requests whose handler returned without emitting anything
    dashboard,      \* socket -> state of the StaffDashboard object of that page
    wire,           \* the signaling events on their way between clients and server
    chat,           \* the chat backend: its conversations Map and its calls in flight
    form,           \* the ReceptionistChatbot object of the chat page
    nStart, nLogin, nDecision, nRelay, nLeave   \* events handled so far

vars == <<dbConnected, now, live, connectedUsers, waitingCalls, users, conversations, calls,
          demoCalls, tasks, inbox, sent, unanswered, dashboard, wire, chat, form, nStart, nLogin,
          nDecision, nRelay, nLeave>>

\* the state of the call server and of its connections
core == <<dbConnected, now, live, connectedUsers, waitingCalls, users, conversations, calls,
          demoCalls, tasks, inbox, sent, unanswered, nStart, nLogin, nDecision, nRelay, nLeave>>

\* all but the dashboards
server == <<core, wire, chat, form>>

counters == <<sent, unanswered, nStart, nLogin, nDecision, nRelay, nLeave>>

\* ---- identities -----------------------------------------------------------
\* _id of a User document (one per email) and of a demo user (`demo_${Date.now()}`)
DbUserId(email) == [tag |-> "db", email |-> email, stamp |-> 0]
DemoUserId(t) == [tag |-> "demo", email |-> "", stamp |-> t]

DbUser(email, role) == [id |-> DbUserId(email), name |-> email, role |-> role]
DemoUser(name, t) == [id |-> DemoUserId(t), name |-> name, role |-> "client"]

\* ---- connectedUsers: a Map, iterated in insertion order --------------------
CUIndex(cu, s) == {i \in 1..Len(cu) : cu[i].sock = s}
CUGet(cu, s) == {cu[i].user : i \in CUIndex(cu, s)}
CUSet(cu, s, u) ==
    IF CUIndex(cu, s) = {}
    THEN Append(cu, [sock |-> s, user |-> u])
    ELSE [i \in 1..Len(cu) |-> IF cu[i].sock = s THEN [sock |-> s, user |-> u] ELSE cu[i]]
CUDelete(cu, s) == SelectSeq(cu, LAMBDA e : e.sock # s)

\* Array.from(connectedUsers.entries()).find(([id, user]) => user._id === uid)?.[0]
CUFindByUser(cu, uid) ==
    LET hits == {i \in 1..Len(cu) : cu[i].user.id = uid}
    IN IF hits = {} THEN {}
       ELSE {cu[CHOOSE i \in hits : \A j \in hits : i <= j].sock}

\* Array.from(waitingCalls.entries()).find(([id, c]) => c._id === callId)?.[0]
WCFindByCall(wc, cid) ==
    LET hits == {s \in Sockets : wc[s] = {cid}}
    IN IF hits = {} THEN {} ELSE {CHOOSE s \in hits : TRUE}

\* ---- events ---------------------------------------------------------------
\* callId of call-accepted and call-completed is not part of the payload the code
\* sends; it records which call the handler that sent the event was working on.
Event(ev) == [ev |-> ev, callId |-> {}, who |-> "", from |-> {},
              payload |-> "", notes |-> "", count |-> 0]

\* an emit that is kept for a socket that has left, as a queue of undelivered events
\* would keep it
SendQueued(box, lv, s, e) ==
    [x \in Sockets |-> IF x = s THEN box[x] (+) SetToBag({e}) ELSE box[x]]

\* io.to(s).emit / socket.emit: delivered when the socket is connected, else dropped
Send(box, lv, s, e) ==
    [x \in Sockets |-> IF x = s /\ lv[x] = "live" THEN box[x] (+) SetToBag({e}) ELSE box[x]]

\* io.to('staff').emit with no socket ever joined to that room: nobody receives
BroadcastToRoom(box, lv, e) == box

\* io.emit: to every connected socket
Broadcast(box, lv, e) ==
    [x \in Sockets |-> IF lv[x] = "live" THEN box[x] (+) SetToBag({e}) ELSE box[x]]

\* ---- Call documents ---------------------------------------------------------
NewCall(clientId, purpose, t) ==
    [clientId |-> clientId, staffId |-> {}, status |-> "waiting", purpose |-> purpose,
     startTime |-> {}, endTime |-> {}, duration |-> {}, decision |-> "pending",
     notes |-> "", createdAt |-> t]

\* Call.findById(callId)
FindById(cid) == IF cid \in 1..Len(calls) THEN {calls[cid]} ELSE {}

\* Math.floor((call.endTime - call.startTime) / 1000)
Duration(startT, endT) == ((endT - startT) * TickMs) \div 1000

\* an update of all the calls of the document's client, as Call.updateMany({ clientId })
\* would make it
SaveForClient(cid, doc) ==
    [i \in DOMAIN calls |-> IF calls[i].clientId = doc.clientId THEN doc ELSE calls[i]]

\* call.save() of an existing document: the document with that _id is written
Save(cid, doc) == [calls EXCEPT ![cid] = doc]

\* ---- handlers in flight -------------------------------------------------------
Task(h, pc, s) ==
    [h |-> h, pc |-> pc, sock |-> s, user |-> {}, callId |-> {}, clientId |-> {},
     t |-> 0, startTime |-> {}, rstatus |-> "", name |-> "", purpose |-> "",
     decision |-> "", notes |-> ""]

Replace(old, new) == (tasks \ {old}) \cup {new}

\* no signaling event is on its way
NewWire == [up |-> [s \in Sockets |-> <<>>], down |-> [s \in Sockets |-> <<>>],
            out |-> [s \in Sockets |-> <<>>], got |-> [s \in Sockets |-> <<>>]]

\* const conversations = new Map() (part_001 609, register-script.js 165): arrays is
\* the heap of the history arrays, conversations maps an id to its array (0 when the
\* Map has no entry), calls are the generateResponse calls suspended at the vendor's
\* API, log the pairs of the calls that returned a reply, in the order they returned,
\* and replies what the calls returned
NewChat ==
    [vendor |-> TRUE, arrays |-> <<>>, conversations |-> [c \in ConversationIds |-> 0],
     calls |-> {}, log |-> [c \in ConversationIds |-> <<>>], replies |-> {}, n |-> 0]

\* new ReceptionistChatbot() (script.js 896-908): not processing.  submits counts the
\* submit events, ignored those with a message that sent nothing, requests the fetch
\* calls made; posted are the requests on their way to the server, pending those whose
\* sendMessage has not settled, settled says how each of the others ended
NewForm ==
    [isProcessing |-> FALSE, submits |-> 0, ignored |-> 0, requests |-> 0, posted |-> {},
     pending |-> {}, settled |-> {}]

\* new StaffDashboard() (staff-script.js 3-16): no current call, no peer connection.
\* media is "pending" while acceptCall waits for getUserMedia, gathering says that the
\* peer connection has a local description, handled is the bag of the events whose
\* listener has run, emitted the call events the dashboard has emitted
NewDashboard ==
    [currentCall |-> {}, media |-> "none", peerConnection |-> FALSE, gathering |-> FALSE,
     handled |-> EmptyBag, emitted |-> {}]

Init ==
    /\ dbConnected \in BOOLEAN
    /\ now = 0
    /\ live = [s \in Sockets |-> "live"]
    /\ connectedUsers = <<>>
    /\ waitingCalls = [s \in Sockets |-> {}]
    /\ users = [e \in Emails |-> IF e \in StaffEmails THEN "staff" ELSE "none"]
    /\ conversations = {}
    /\ calls = <<>>
    /\ demoCalls = [s \in Sockets |-> {}]
    /\ tasks = {}
    /\ inbox = [s \in Sockets |-> EmptyBag]
    /\ sent = EmptyBag
    /\ unanswered = {}
    /\ dashboard = [s \in Sockets |-> NewDashboard]
    /\ wire = NewWire
    /\ chat = NewChat
    /\ form = NewForm
    /\ nStart = 0 /\ nLogin = 0 /\ nDecision = 0 /\ nRelay = 0 /\ nLeave = 0

\* the state after construction when the page of socket s1 has not been opened yet
InitLate ==
    /\ dbConnected \in BOOLEAN
    /\ now = 0
    /\ live = [s \in Sockets |-> IF s = "s1" THEN "new" ELSE "live"]
    /\ connectedUsers = <<>>
    /\ waitingCalls = [s \in Sockets |-> {}]
    /\ users = [e \in Emails |-> IF e \in StaffEmails THEN "staff" ELSE "none"]
    /\ conversations = {}
    /\ calls = <<>>
    /\ demoCalls = [s \in Sockets |-> {}]
    /\ tasks = {}
    /\ inbox = [s \in Sockets |-> EmptyBag]
    /\ sent = EmptyBag
    /\ unanswered = {}
    /\ dashboard = [s \in Sockets |-> NewDashboard]
    /\ wire = NewWire
    /\ chat = NewChat
    /\ form = NewForm
    /\ nStart = 0 /\ nLogin = 0 /\ nDecision = 0 /\ nRelay = 0 /\ nLeave = 0

\* io.on('connection') (part_001 168-169): the socket is connected, its handlers are set
Connect(s) ==
    /\ live[s] = "new"
    /\ live' = [live EXCEPT ![s] = "live"]
    /\ UNCHANGED <<wire, chat, form, dashboard, dbConnected, now, connectedUsers, waitingCalls, users, conversations,
                   calls, demoCalls, tasks, inbox, counters>>

\* the clock advances between two steps of the server
Tick ==
    /\ now < MaxNow
    /\ now' = now + 1
    /\ UNCHANGED <<wire, chat, form, dashboard, dbConnected, live, connectedUsers, waitingCalls, users, conversations,
                   calls, demoCalls, tasks, inbox, counters>>

\* ---- staff-login (part_001 172-195) ------------------------------------------
\* The handler up to its first access to connectedUsers: User.findOne, bcrypt.compare,
\* user.save.  Without a database connection User.findOne rejects and the catch answers.
StaffLogin(s, email, passwordOk) ==
    /\ live[s] = "live"
    /\ nLogin' = nLogin + 1
    /\ IF ~dbConnected
       THEN /\ inbox' = Send(inbox, live, s, [Event("login-error") EXCEPT !.payload = "Login failed"])
            /\ tasks' = tasks
       ELSE IF users[email] # "staff" \/ ~passwordOk
       THEN /\ inbox' = Send(inbox, live, s, [Event("login-error") EXCEPT !.payload = "Invalid credentials"])
            /\ tasks' = tasks
       ELSE /\ inbox' = inbox
            /\ tasks' = tasks \cup {[Task("login", "register", s) EXCEPT
                                       !.user = {DbUser(email, "staff")}]}
    /\ UNCHANGED <<wire, chat, form, dashboard, dbConnected, now, live, connectedUsers, waitingCalls, users, conversations, calls,
                   demoCalls, sent, unanswered, nStart, nDecision, nRelay, nLeave>>

\* after await user.save(): connectedUsers.set, login-success, Call.countDocuments issued
LoginRegister(tk) ==
    /\ tk \in tasks /\ tk.h = "login" /\ tk.pc = "register"
    /\ \E u \in tk.user :
        /\ connectedUsers' = CUSet(connectedUsers, tk.sock, u)
        /\ inbox' = Send(inbox, live, tk.sock, [Event("login-success") EXCEPT !.who = u.name])
    /\ tasks' = Replace(tk, [tk EXCEPT !.pc = "count"])
    /\ UNCHANGED <<wire, chat, form, dashboard, dbConnected, now, live, waitingCalls, users, conversations, calls, demoCalls, counters>>

\* Call.countDocuments({status: 'waiting'}) resolves: waiting-calls
LoginCount(tk) ==
    /\ tk \in tasks /\ tk.h = "login" /\ tk.pc = "count"
    /\ inbox' = Send(inbox, live, tk.sock,
                     [Event("waiting-calls") EXCEPT
                        !.count = Cardinality({i \in 1..Len(calls) : calls[i].status = "waiting"})])
    /\ tasks' = tasks \ {tk}
    /\ UNCHANGED <<wire, chat, form, dashboard, dbConnected, now, live, connectedUsers, waitingCalls, users, conversations, calls,
                   demoCalls, counters>>

\* ---- start-conversation (part_001 198-311) --------------------------------------
\* a sessionId declared without unique: nothing refuses a second conversation
SessionNeverTaken(s) == FALSE

\* Conversation.sessionId is unique (Conversation.js 30-34) and is the socket id:
\* conversation.save() of a second conversation of one socket rejects
SessionTaken(s) == s \in conversations

\* Database mode: User.findOne({email}), the user's creation when there is none,
\* conversation.save and new Call(...); the handler then waits for call.save().
\* Demo mode has no await: the whole branch is one step.

StartConversation(s, email, purpose) ==
    /\ live[s] = "live"
    /\ nStart' = nStart + 1
    /\ IF dbConnected
       THEN /\ users' = [users EXCEPT ![email] = IF @ = "none" THEN "client" ELSE @]
            /\ IF SessionTaken(s)
               THEN /\ inbox' = Send(inbox, live, s,
                                     [Event("error") EXCEPT !.payload = "Failed to start conversation"])
                    /\ UNCHANGED <<tasks, conversations>>
               ELSE /\ conversations' = conversations \cup {s}
                    /\ tasks' = tasks \cup {[Task("start", "saveCall", s) EXCEPT
                                               !.user = {DbUser(email, users'[email])},
                                               !.name = email, !.purpose = purpose, !.t = now]}
                    /\ inbox' = inbox
            /\ UNCHANGED <<demoCalls, connectedUsers>>
       ELSE /\ demoCalls' = [demoCalls EXCEPT ![s] =
                               {[id |-> now, clientId |-> DemoUserId(now), purpose |-> purpose,
                                 status |-> "waiting", createdAt |-> now]}]
            /\ connectedUsers' = CUSet(connectedUsers, s, DemoUser(email, now))
            /\ inbox' = Send(Broadcast(inbox, live,
                                       [Event("new-call-request") EXCEPT
                                          !.callId = {now}, !.who = email, !.payload = purpose]),
                             live, s,
                             [Event("conversation-started") EXCEPT
                                !.callId = {now}, !.who = email, !.payload = purpose])
            /\ UNCHANGED <<users, conversations, tasks>>
    /\ UNCHANGED <<wire, chat, form, dashboard, dbConnected, now, live, waitingCalls, calls, sent, unanswered, nLogin,
                   nDecision, nRelay, nLeave>>

\* call.save() of the new document: purpose is required (Call.js 23-26), so a call
\* without purpose fails validation and the catch answers; else the document is stored
SCSaveCall(tk) ==
    /\ tk \in tasks /\ tk.h = "start" /\ tk.pc = "saveCall"
    /\ IF tk.purpose = ""
       THEN /\ inbox' = Send(inbox, live, tk.sock,
                             [Event("error") EXCEPT !.payload = "Failed to start conversation"])
            /\ tasks' = tasks \ {tk}
            /\ calls' = calls
       ELSE /\ \E u \in tk.user : calls' = Append(calls, NewCall(u.id, tk.purpose, tk.t))
            /\ tasks' = Replace(tk, [tk EXCEPT !.pc = "finish", !.callId = {Len(calls) + 1}])
            /\ inbox' = inbox
    /\ UNCHANGED <<wire, chat, form, dashboard, dbConnected, now, live, connectedUsers, waitingCalls, users, conversations,
                   demoCalls, counters>>

\* after await call.save(): waitingCalls.set, connectedUsers.set, the two emits
SCFinish(tk) ==
    /\ tk \in tasks /\ tk.h = "start" /\ tk.pc = "finish"
    /\ waitingCalls' = [waitingCalls EXCEPT ![tk.sock] = tk.callId]
    /\ \E u \in tk.user : connectedUsers' = CUSet(connectedUsers, tk.sock, u)
    /\ inbox' = Send(Broadcast(inbox, live,
                               [Event("new-call-request") EXCEPT
                                  !.callId = tk.callId, !.who = tk.name, !.payload = tk.purpose]),
                     live, tk.sock,
                     [Event("conversation-started") EXCEPT
                        !.callId = tk.callId, !.who = tk.name, !.payload = tk.purpose])
    /\ tasks' = tasks \ {tk}
    /\ UNCHANGED <<wire, chat, form, dashboard, dbConnected, now, live, users, conversations, calls, demoCalls, counters>>

\* ---- accept-call (part_001 314-349) ---------------------------------------------
\* The role check and Call.findById; a handler that passes both has set staffId,
\* status and startTime on its copy of the document and waits for call.save().
\* why: the condition of the return statement taken
\* connectedUsers.get(socket.id) without the check of its role
AnyUser(s) == CUGet(connectedUsers, s)

\* staffUser = connectedUsers.get(socket.id), kept when staffUser.role === 'staff'
\* (part_001 316-321 and 370-375)
StaffUser(s) == {u \in CUGet(connectedUsers, s) : u.role = "staff"}

Request(ev, s, cid, why) == [ev |-> ev, sock |-> s, callId |-> cid, why |-> why]

\* a handler returns without an emit
Return(req) ==
    /\ req \notin unanswered
    /\ Cardinality(unanswered) < MaxUnanswered
    /\ unanswered' = unanswered \cup {req}

OnAcceptCall(s, cid) ==
    /\ live[s] = "live"
    /\ LET staff == StaffUser(s)
           found == {c \in FindById(cid) : c.status = "waiting"}
       IN IF staff = {}
          THEN Return(Request("accept-call", s, cid, "role")) /\ UNCHANGED <<tasks, inbox>>
          ELSE IF ~dbConnected
          THEN /\ inbox' = Send(inbox, live, s,
                                [Event("error") EXCEPT !.payload = "Failed to accept call"])
               /\ UNCHANGED <<tasks, unanswered>>
          ELSE IF found = {}
          THEN /\ Return(Request("accept-call", s, cid,
                                  IF FindById(cid) = {} THEN "missing" ELSE "state"))
               /\ UNCHANGED <<tasks, inbox>>
          ELSE /\ tasks' = tasks \cup {[Task("accept", "save", s) EXCEPT
                                          !.user = staff, !.callId = {cid}, !.t = now,
                                          !.clientId = {c.clientId : c \in found}]}
               /\ UNCHANGED <<inbox, unanswered>>
    /\ UNCHANGED <<wire, chat, form, dbConnected, now, live, connectedUsers, waitingCalls, users, conversations, calls,
                   demoCalls, sent, nStart, nLogin, nDecision, nRelay, nLeave>>

\* accept-call emitted by a client other than a modelled dashboard
AcceptCall(s, cid) == OnAcceptCall(s, cid) /\ UNCHANGED dashboard

\* call.save(): the modified paths staffId, status and startTime are written
AcceptWrite(c, tk) ==
    [c EXCEPT !.staffId = {u.id : u \in tk.user}, !.status = "in-progress",
              !.startTime = {tk.t}]

AcceptSave(tk) ==
    /\ tk \in tasks /\ tk.h = "accept" /\ tk.pc = "save"
    /\ \E cid \in tk.callId : calls' = Save(cid, AcceptWrite(calls[cid], tk))
    /\ tasks' = Replace(tk, [tk EXCEPT !.pc = "finish"])
    /\ UNCHANGED <<wire, chat, form, dashboard, dbConnected, now, live, connectedUsers, waitingCalls, users, conversations,
                   demoCalls, inbox, counters>>

\* after await call.save(): call-accepted to the client socket found in waitingCalls,
\* waitingCalls.delete, call-started to the staff socket
AcceptFinish(tk) ==
    /\ tk \in tasks /\ tk.h = "accept" /\ tk.pc = "finish"
    /\ \E cid \in tk.callId, u \in tk.user :
        LET client == WCFindByCall(waitingCalls, cid)
            accepted == [Event("call-accepted") EXCEPT !.who = u.name, !.callId = {cid}]
            started == [Event("call-started") EXCEPT !.callId = {cid}]
            box == IF client = {} THEN inbox
                   ELSE Send(inbox, live, CHOOSE x \in client : TRUE, accepted)
        IN /\ waitingCalls' = [x \in Sockets |-> IF x \in client THEN {} ELSE waitingCalls[x]]
           /\ inbox' = Send(box, live, tk.sock, started)
    /\ tasks' = tasks \ {tk}
    /\ UNCHANGED <<wire, chat, form, dashboard, dbConnected, now, live, connectedUsers, users, conversations, calls, demoCalls,
                   counters>>

\* ---- offer / answer / ice-candidate (part_001 351-365) ---------------------------
\* io.to(target).emit(kind, {payload, from: socket.id})
\* the answer and ice-candidate handlers copied from the offer handler, the event name
\* left as it was
RelayEventCopied(s, kind, payload) ==
    [Event("offer") EXCEPT !.payload = payload, !.from = {s}]

RelayEvent(s, kind, payload) ==
    [Event(kind) EXCEPT !.payload = payload, !.from = {s}]

\* socket s emits kind with {target, payload}; the handler forwards it
OnRelay(s, kind, target, payload) ==
    /\ live[s] = "live"
    /\ nRelay' = nRelay + 1
    /\ sent' = sent (+) SetToBag({[from |-> s, kind |-> kind, target |-> target,
                                   payload |-> payload]})
    /\ inbox' = Send(inbox, live, target, RelayEvent(s, kind, payload))
    /\ UNCHANGED <<chat, form, dbConnected, now, live, connectedUsers, waitingCalls, users, conversations, calls,
                   demoCalls, tasks, unanswered, nStart, nLogin, nDecision, nLeave>>

\* a signaling event emitted by a client other than a modelled dashboard
Relay(s, kind, target, payload) ==
    OnRelay(s, kind, target, payload) /\ UNCHANGED <<dashboard, wire>>

\* ---- call-decision (part_001 368-401) ----------------------------------------------
\* The role check and Call.findById.  call.staffId.toString() throws when the call has
\* no staffId, and the catch answers.  A handler that passes has set status, endTime,
\* decision, notes and duration on its copy and waits for call.save().
OnCallDecision(s, cid, decision, notes) ==
    /\ live[s] = "live"
    /\ LET staff == StaffUser(s)
           found == FindById(cid)
           owned == {c \in found : \E u \in staff : c.staffId = {u.id}}
       IN IF staff = {}
          THEN /\ Return(Request("call-decision", s, cid, "role"))
               /\ UNCHANGED <<tasks, inbox, nDecision>>
          ELSE IF ~dbConnected \/ \E c \in found : c.staffId = {}
          THEN /\ nDecision' = nDecision + 1
               /\ inbox' = Send(inbox, live, s,
                                [Event("error") EXCEPT !.payload = "Failed to save decision"])
               /\ UNCHANGED <<tasks, unanswered>>
          ELSE IF owned = {}
          THEN /\ Return(Request("call-decision", s, cid,
                                  IF found = {} THEN "missing" ELSE "owner"))
               /\ UNCHANGED <<tasks, inbox, nDecision>>
          ELSE /\ nDecision' = nDecision + 1
               /\ tasks' = tasks \cup {[Task("decision", "save", s) EXCEPT
                                          !.user = staff, !.callId = {cid}, !.t = now,
                                          !.clientId = {c.clientId : c \in owned},
                                          !.startTime = UNION {c.startTime : c \in owned},
                                          !.rstatus = (CHOOSE c \in owned : TRUE).status,
                                          !.decision = decision, !.notes = notes]}
               /\ UNCHANGED <<inbox, unanswered>>
    /\ UNCHANGED <<wire, chat, form, dbConnected, now, live, connectedUsers, waitingCalls, users, conversations, calls,
                   demoCalls, sent, nStart, nLogin, nRelay, nLeave>>

\* call-decision emitted by a client other than a modelled dashboard
CallDecision(s, cid, decision, notes) ==
    OnCallDecision(s, cid, decision, notes) /\ UNCHANGED dashboard

\* call.save(): the modified paths are written; status is one of them unless the copy
\* read already had status completed
DecisionWrite(c, tk) ==
    [c EXCEPT !.status = IF tk.rstatus = "completed" THEN @ ELSE "completed",
              !.endTime = {tk.t}, !.decision = tk.decision, !.notes = tk.notes,
              !.duration = {Duration(st, tk.t) : st \in tk.startTime}]

DecisionSave(tk) ==
    /\ tk \in tasks /\ tk.h = "decision" /\ tk.pc = "save"
    /\ \E cid \in tk.callId : calls' = Save(cid, DecisionWrite(calls[cid], tk))
    /\ tasks' = Replace(tk, [tk EXCEPT !.pc = "finish"])
    /\ UNCHANGED <<wire, chat, form, dashboard, dbConnected, now, live, connectedUsers, waitingCalls, users, conversations,
                   demoCalls, inbox, counters>>

\* after await call.save(): call-completed to the first socket of connectedUsers whose
\* user is the call's client, decision-saved to the staff socket
DecisionFinish(tk) ==
    /\ tk \in tasks /\ tk.h = "decision" /\ tk.pc = "finish"
    /\ \E cid \in tk.callId, uid \in tk.clientId :
        LET client == CUFindByUser(connectedUsers, uid)
            completed == [Event("call-completed") EXCEPT
                            !.payload = tk.decision, !.notes = tk.notes, !.callId = {cid}]
            saved == [Event("decision-saved") EXCEPT !.callId = {cid}, !.payload = tk.decision]
            box == IF client = {} THEN inbox
                   ELSE Send(inbox, live, CHOOSE x \in client : TRUE, completed)
        IN inbox' = Send(box, live, tk.sock, saved)
    /\ tasks' = tasks \ {tk}
    /\ UNCHANGED <<wire, chat, form, dashboard, dbConnected, now, live, connectedUsers, waitingCalls, users, conversations, calls,
                   demoCalls, counters>>

\* ---- disconnect (part_001 442-461) ---------------------------------------------------
\* The socket is gone when the event is handled.  For a staff user the handler waits
\* for user.save() before connectedUsers.delete; for any other user it deletes at once
\* and goes on to waitingCalls.get.
DiscCall(tk, wc) ==
    IF wc[tk.sock] = {} THEN {} ELSE {[tk EXCEPT !.pc = "saveCall", !.callId = wc[tk.sock]]}

Disconnect(s) ==
    /\ live[s] = "live"
    /\ nLeave' = nLeave + 1
    /\ live' = [live EXCEPT ![s] = "gone"]
    /\ LET user == CUGet(connectedUsers, s)
           tk == Task("disconnect", "saveUser", s)
       IN IF \E u \in user : u.role = "staff"
          THEN /\ tasks' = tasks \cup {tk}
               /\ connectedUsers' = connectedUsers
          ELSE /\ connectedUsers' = CUDelete(connectedUsers, s)
               /\ tasks' = tasks \cup DiscCall(tk, waitingCalls)
    /\ UNCHANGED <<wire, chat, form, dashboard, dbConnected, now, waitingCalls, users, conversations, calls, demoCalls, inbox,
                   sent, unanswered, nStart, nLogin, nDecision, nRelay>>

\* after await user.save(): connectedUsers.delete, then waitingCalls.get
DiscUserSaved(tk) ==
    /\ tk \in tasks /\ tk.h = "disconnect" /\ tk.pc = "saveUser"
    /\ connectedUsers' = CUDelete(connectedUsers, tk.sock)
    /\ tasks' = (tasks \ {tk}) \cup DiscCall(tk, waitingCalls)
    /\ UNCHANGED <<wire, chat, form, dashboard, dbConnected, now, live, waitingCalls, users, conversations, calls, demoCalls, inbox,
                   counters>>

\* call.status = 'rejected'; call.save(): the modified path status is written
DiscWrite(c) == [c EXCEPT !.status = "rejected"]

DiscCallSave(tk) ==
    /\ tk \in tasks /\ tk.h = "disconnect" /\ tk.pc = "saveCall"
    /\ \E cid \in tk.callId : calls' = Save(cid, DiscWrite(calls[cid]))
    /\ tasks' = Replace(tk, [tk EXCEPT !.pc = "finish"])
    /\ UNCHANGED <<wire, chat, form, dashboard, dbConnected, now, live, connectedUsers, waitingCalls, users, conversations,
                   demoCalls, inbox, counters>>

\* after await call.save(): waitingCalls.delete(socket.id)
DiscFinish(tk) ==
    /\ tk \in tasks /\ tk.h = "disconnect" /\ tk.pc = "finish"
    /\ waitingCalls' = [waitingCalls EXCEPT ![tk.sock] = {}]
    /\ tasks' = tasks \ {tk}
    /\ UNCHANGED <<wire, chat, form, dashboard, dbConnected, now, live, connectedUsers, users, conversations, calls, demoCalls,
                   inbox, counters>>

\* ---- GET /api/calls/waiting (part_001 520-529) ------------------------------------------
\* Call.find({status: 'waiting'}).sort({createdAt: 1}) is one query: its answer is a
\* function of the Call collection at the moment the query runs.
\* the order of sort({createdAt: -1}), which GET /api/calls/my-calls uses
NewestFirst(a, b) == calls[a].createdAt >= calls[b].createdAt

\* the order of sort({createdAt: 1})
OldestFirst(a, b) == calls[a].createdAt <= calls[b].createdAt

RECURSIVE Insert(_, _)
Insert(q, x) ==
    IF q = <<>> THEN <<x>>
    ELSE IF OldestFirst(Head(q), x) THEN <<Head(q)>> \o Insert(Tail(q), x)
    ELSE <<x>> \o q

RECURSIVE SortByCreatedAt(_)
SortByCreatedAt(q) ==
    IF q = <<>> THEN <<>>
    ELSE Insert(SortByCreatedAt(SubSeq(q, 1, Len(q) - 1)), q[Len(q)])

\* the _ids of the documents the query answers with, in the order of the answer
ListWaiting ==
    SortByCreatedAt(SelectSeq([i \in 1..Len(calls) |-> i],
                              LAMBDA i : calls[i].status = "waiting"))

\* ---- the system ------------------------------------------------------------------------
\* a suspended staff-login, start-conversation or accept-call handler resumes
ResumeIntake ==
    \/ \E tk \in tasks : LoginRegister(tk)
    \/ \E tk \in tasks : LoginCount(tk)
    \/ \E tk \in tasks : SCSaveCall(tk)
    \/ \E tk \in tasks : SCFinish(tk)
    \/ \E tk \in tasks : AcceptSave(tk)
    \/ \E tk \in tasks : AcceptFinish(tk)

\* a suspended call-decision handler resumes
ResumeDecision ==
    \/ \E tk \in tasks : DecisionSave(tk)
    \/ \E tk \in tasks : DecisionFinish(tk)

\* a suspended handler of the call lifecycle resumes
Resume == ResumeIntake \/ ResumeDecision

\* a suspended disconnect handler resumes
ResumeDisconnect ==
    \/ \E tk \in tasks : DiscUserSaved(tk)
    \/ \E tk \in tasks : DiscCallSave(tk)
    \/ \E tk \in tasks : DiscFinish(tk)

\* the calls a dashboard lists: those announced to it by new-call-request
\* (staff-script.js 120-141); it sends accept-call and call-decision for these
Announced(s) == UNION {e.callId : e \in {x \in BagToSet(inbox[s]) : x.ev = "new-call-request"}}

\* The call events of a scenario sc: the sockets that send each kind of event, the
\* inputs they send, and how many events of each kind the server handles
CallEvents(sc) ==
    \/ /\ nLogin < sc.maxLogins
       /\ \E l \in sc.logins, ok \in sc.passwords : StaffLogin(l[1], l[2], ok)
    \/ /\ nStart < sc.maxStarts
       /\ \E s \in sc.visitors, e \in sc.emails, p \in sc.purposes :
             StartConversation(s, e, p)
    \/ \E s \in sc.staff : \E cid \in Announced(s) : AcceptCall(s, cid)
    \/ /\ nDecision < sc.maxDecisions
       /\ \E s \in sc.staff : \E cid \in Announced(s), d \in Decisions, n \in NotesSet :
             CallDecision(s, cid, d, n)

\* one visitor page and two staff dashboards, none of which leaves
Reception ==
    [visitors |-> {"s3"}, emails |-> {"carol"}, purposes |-> {"Support"},
     staff |-> {"s1", "s2"}, logins |-> {<<"s1", "alice">>, <<"s2", "bob">>},
     passwords |-> {TRUE},
     maxStarts |-> MaxStarts, maxLogins |-> MaxLogins, maxDecisions |-> MaxDecisions]

Next == CallEvents(Reception) \/ Resume

Spec == Init /\ [][Next]_vars

\* one visitor page and one staff dashboard, which may leave at any moment
Departure ==
    [visitors |-> {"s3"}, emails |-> {"carol"}, purposes |-> {"Support"},
     staff |-> {"s1"}, logins |-> {<<"s1", "alice">>},
     passwords |-> {TRUE},
     maxStarts |-> MaxStarts, maxLogins |-> MaxLogins, maxDecisions |-> MaxRedecisions]

NextLeave ==
    \/ CallEvents(Departure)
    \/ Resume
    \/ nLeave < MaxLeaves /\ \E s \in {"s1", "s3"} : Disconnect(s)
    \/ ResumeDisconnect

SpecLeave == Init /\ [][NextLeave]_vars

\* any socket sends signaling messages to any target, and sockets leave
NextRelay ==
    \/ /\ nRelay < MaxRelays
       /\ \E s \in Sockets, k \in Kinds, t \in Sockets, p \in Payloads : Relay(s, k, t, p)
    \/ nLeave < MaxLeaves /\ \E s \in Sockets : Disconnect(s)

SpecRelay == Init /\ [][NextRelay]_vars

\* two visitor pages of one person and one staff dashboard with the clock running;
\* the staff accepts, the dashboard or the first page may be closed, and nobody decides
NextQueue ==
    \/ nLogin < 1 /\ StaffLogin("s1", "alice", TRUE)
    \/ nStart < MaxQueued /\ \E s \in {"s2", "s3"} : StartConversation(s, "carol", "Support")
    \/ \E cid \in Announced("s1") : AcceptCall("s1", cid)
    \/ ResumeIntake
    \/ Tick
    \/ nLeave < MaxLeaves /\ \E s \in {"s1", "s2"} : Disconnect(s)
    \/ ResumeDisconnect

SpecQueue == Init /\ [][NextQueue]_vars

\* one visitor page and one staff dashboard with the clock running
NextClock ==
    \/ CallEvents(Departure)
    \/ Resume
    \/ Tick

SpecClock == Init /\ [][NextClock]_vars

\* one visitor page and one staff dashboard that is opened at any moment
NextLate ==
    \/ CallEvents(Departure)
    \/ Resume
    \/ Connect("s1")

SpecLate == InitLate /\ [][NextLate]_vars

\* two visitor pages of one person, with or without a purpose, and one staff dashboard
Lobby ==
    [visitors |-> {"s2", "s3"}, emails |-> {"carol"}, purposes |-> Purposes,
     staff |-> {"s1"}, logins |-> {<<"s1", "alice">>},
     passwords |-> {TRUE},
     maxStarts |-> MaxVisits, maxLogins |-> 1, maxDecisions |-> MaxDecisions]

NextLobby == CallEvents(Lobby) \/ Resume

SpecLobby == Init /\ [][NextLobby]_vars

\* two visitor pages of one person and one staff dashboard, which decides; the dashboard
\* or the first page may be closed
Pair ==
    [visitors |-> {"s2", "s3"}, emails |-> {"carol"}, purposes |-> {"Support"},
     staff |-> {"s1"}, logins |-> {<<"s1", "alice">>},
     passwords |-> {TRUE},
     maxStarts |-> MaxVisits, maxLogins |-> 1, maxDecisions |-> MaxDecisions]

NextPair ==
    \/ CallEvents(Pair)
    \/ Resume
    \/ nLeave < MaxLeaves /\ \E s \in {"s1", "s2"} : Disconnect(s)
    \/ ResumeDisconnect

SpecPair == Init /\ [][NextPair]_vars

\* one staff dashboard and one other page, which starts a conversation under the email
\* of a visitor or of a staff account, may log in as staff, and sends accept-call and
\* call-decision as the dashboard does
Guest ==
    [visitors |-> {"s3"}, emails |-> {"alice", "carol"}, purposes |-> {"Support"},
     staff |-> {"s1", "s3"}, logins |-> {<<"s1", "alice">>, <<"s3", "bob">>},
     passwords |-> {TRUE},
     maxStarts |-> MaxStarts, maxLogins |-> MaxLogins, maxDecisions |-> MaxDecisions]

NextGuest == CallEvents(Guest) \/ Resume

SpecGuest == Init /\ [][NextGuest]_vars

\* ---- the staff dashboard (staff-script.js) ------------------------------------------------
\* currentCall with the fields the dashboard reads; a field the object does not have is
\* the empty set.  No assignment in the dashboard gives it a clientSocketId.
CurrentCall(id, callId) == [id |-> id, callId |-> callId, clientSocketId |-> {}]

\* a call event the dashboard emitted: the callId it carried (empty when undefined),
\* the call the dashboard was on, and whether call-started had set currentCall
Emitted(ev, callId, c) ==
    [ev |-> ev, callId |-> callId, current |-> c.id \cup c.callId, started |-> c.callId # {}]

\* a callId as the server reads it from the event: undefined matches no document, as
\* the id 0 does
WireId(field) == IF field = {} THEN 0 ELSE CHOOSE c \in field : TRUE

\* a target as the server reads it from the event
WireTarget(field) == IF field = {} THEN "undefined" ELSE CHOOSE t \in field : TRUE

\* the events of kind ev delivered to socket s whose listener has not run yet
Unhandled(s, ev) ==
    {e \in BagToSet(inbox[s]) :
        e.ev = ev /\ CopiesIn(e, dashboard[s].handled) < CopiesIn(e, inbox[s])}

\* the number of distinct signaling messages of a kind emitted so far
Signals(kind) == Cardinality({m \in BagToSet(sent) : m.kind = kind})

cleanupCall(d) ==
    [d EXCEPT !.currentCall = {}, !.peerConnection = FALSE, !.gathering = FALSE]

\* the Accept Call button of an announced call, in the section that login-success
\* shows: accept-call is emitted, which the server handles, currentCall = { id: callId },
\* and initializeVideoCall waits for getUserMedia
acceptCall(s, cid) ==
    /\ \E e \in BagToSet(inbox[s]) : e.ev = "login-success"
    /\ Cardinality({e \in dashboard[s].emitted : e.ev = "accept-call"}) < MaxClicks
    /\ OnAcceptCall(s, cid)
    /\ LET c == CurrentCall({cid}, {})
       IN dashboard' = [dashboard EXCEPT ![s] =
                           [@ EXCEPT !.currentCall = {c}, !.media = "pending",
                                     !.emitted = @ \cup {Emitted("accept-call", {cid}, c)}]]

\* getUserMedia resolves and the peer connection is set up, or it rejects and the catch
\* leaves the dashboard without one
initializeVideoCall(s) ==
    /\ live[s] = "live"
    /\ dashboard[s].media = "pending"
    /\ \E granted \in BOOLEAN :
          dashboard' = [dashboard EXCEPT ![s] =
                           [@ EXCEPT !.media = "none",
                                     !.peerConnection = IF granted THEN TRUE ELSE @]]
    /\ UNCHANGED server

\* socket.on('call-started'): this.currentCall = data, the server's { callId, clientId }
handleCallStarted(s) ==
    /\ live[s] = "live"
    /\ \E e \in Unhandled(s, "call-started") :
          dashboard' = [dashboard EXCEPT ![s] =
                           [@ EXCEPT !.currentCall = {CurrentCall({}, e.callId)},
                                     !.handled = @ (+) SetToBag({e})]]
    /\ UNCHANGED server

\* socket.on('offer'): with a peer connection the dashboard answers to data.from and the
\* connection, now with a local description, starts to gather ICE candidates
handleOffer(s) ==
    /\ live[s] = "live"
    /\ \E e \in Unhandled(s, "offer") :
          /\ dashboard' = [dashboard EXCEPT ![s] =
                              [@ EXCEPT !.gathering = dashboard[s].peerConnection,
                                        !.handled = @ (+) SetToBag({e})]]
          /\ IF dashboard[s].peerConnection
             THEN /\ \E answer \in Payloads :
                        OnRelay(s, "answer", WireTarget(e.from), answer)
                  /\ UNCHANGED wire
             ELSE UNCHANGED server

\* peerConnection.onicecandidate: ice-candidate with target
\* this.currentCall.clientSocketId.  With currentCall null the listener throws before
\* it emits.
onicecandidate(s, candidate) ==
    /\ dashboard[s].peerConnection /\ dashboard[s].gathering
    /\ \E c \in dashboard[s].currentCall :
          OnRelay(s, "ice-candidate", WireTarget(c.clientSocketId), candidate)
    /\ UNCHANGED <<dashboard, wire>>

\* the decision buttons: call-decision with callId this.currentCall.id, which the
\* server handles, then cleanupCall
makeDecision(s, decision) ==
    \E c \in dashboard[s].currentCall, notes \in NotesSet :
        /\ OnCallDecision(s, WireId(c.id), decision, notes)
        /\ dashboard' = [dashboard EXCEPT ![s] =
                            [cleanupCall(@) EXCEPT
                                !.emitted = @ \cup {Emitted("call-decision", c.id, c)}]]

\* the end-call button: end-call with callId this.currentCall.id, then cleanupCall.
\* The server registers no listener for end-call, so nothing of the server changes.
endCall(s) ==
    /\ live[s] = "live"
    /\ \E c \in dashboard[s].currentCall :
          dashboard' = [dashboard EXCEPT ![s] =
                           [cleanupCall(@) EXCEPT
                               !.emitted = @ \cup {Emitted("end-call", c.id, c)}]]
    /\ UNCHANGED server

\* one visitor page whose peer may send an offer, and one staff dashboard
NextDashboard ==
    \/ nLogin < 1 /\ StaffLogin("s1", "alice", TRUE)
    \/ nStart < MaxStarts /\ StartConversation("s3", "carol", "Support")
    \/ Resume
    \/ \E cid \in Announced("s1") : acceptCall("s1", cid)
    \/ initializeVideoCall("s1")
    \/ handleCallStarted("s1")
    \/ Signals("offer") < MaxOffers /\ \E offer \in Payloads : Relay("s3", "offer", "s1", offer)
    \/ handleOffer("s1")
    \/ Signals("ice-candidate") < MaxCandidates
          /\ \E candidate \in Payloads : onicecandidate("s1", candidate)
    \/ \E decision \in Decisions : makeDecision("s1", decision)
    \/ endCall("s1")

SpecDashboard == Init /\ [][NextDashboard]_vars

\* one visitor page and the dashboards of two staff, who may both click Accept Call
NextDesks ==
    \/ /\ nLogin < MaxLogins
       /\ \E l \in {<<"s1", "alice">>, <<"s2", "bob">>} : StaffLogin(l[1], l[2], TRUE)
    \/ nStart < MaxStarts /\ StartConversation("s3", "carol", "Support")
    \/ ResumeIntake
    \/ \E s \in {"s1", "s2"} : \E cid \in Announced(s) : acceptCall(s, cid)
    \/ \E s \in {"s1", "s2"} : initializeVideoCall(s)
    \/ \E s \in {"s1", "s2"} : handleCallStarted(s)

SpecDesks == Init /\ [][NextDesks]_vars


\* ---- the signaling events in transit (part_001 351-365) ------------------------------
\* A connection carries its packets in order (the transport's FIFO).  up[s] holds what
\* socket s has emitted and the server has not handled yet, down[t] what the server has
\* emitted to t and t has not received yet; out[s] and got[t] record what s emitted
\* and what t received, each emission with its number in out[s].

\* a handler that emits ahead of what the server emitted to that socket before, as one
\* that waits for something before its emit lets later events overtake it
ForwardFirst(q, e) == <<e>> \o q

\* io.to(target).emit(...) in the handler, which returns without waiting for anything:
\* the event is queued behind what the server emitted to that socket before
Forward(q, e) == Append(q, e)

\* the client page of s emits kind with {target, payload}
Emit(s, kind, target, payload) ==
    /\ live[s] = "live"
    /\ LET m == [kind |-> kind, target |-> target, payload |-> payload,
                 no |-> Len(wire.out[s]) + 1]
       IN wire' = [wire EXCEPT !.up[s] = Append(@, m), !.out[s] = Append(@, m)]
    /\ UNCHANGED <<core, chat, form, dashboard>>

\* the server handles the oldest event of s that it has not handled
Handle(s) ==
    /\ wire.up[s] # <<>>
    /\ LET m == Head(wire.up[s])
           e == [ev |-> RelayEvent(s, m.kind, m.payload), no |-> m.no]
       IN /\ OnRelay(s, m.kind, m.target, m.payload)
          /\ wire' = [wire EXCEPT !.up[s] = Tail(@),
                                  !.down[m.target] =
                                      IF live[m.target] = "live" THEN Forward(@, e) ELSE @]
    /\ UNCHANGED dashboard

\* socket t receives the oldest event the server emitted to it
Deliver(t) ==
    /\ live[t] = "live"
    /\ wire.down[t] # <<>>
    /\ wire' = [wire EXCEPT !.down[t] = Tail(@), !.got[t] = Append(@, Head(wire.down[t]))]
    /\ UNCHANGED <<core, chat, form, dashboard>>

Emitted3 == Len(wire.out["s1"]) + Len(wire.out["s2"]) + Len(wire.out["s3"])

\* two pages signal to a third and to each other, and a page may be closed
NextWire ==
    \/ /\ Emitted3 < MaxSignals
       /\ \E s \in {"s1", "s2"}, k \in Kinds, t \in {"s3", "s1"} :
              Emit(s, k, t, IF Emitted3 = 0 THEN "sdp-a" ELSE "sdp-b")
    \/ \E s \in Sockets : Handle(s)
    \/ \E t \in Sockets : Deliver(t)
    \/ nLeave < MaxLeaves /\ \E s \in {"s2", "s3"} : Disconnect(s)

SpecWire == Init /\ [][NextWire]_vars

\* ---- the chat backends (part_001 609-672, register-script.js 165-272) -----------------
\* Both backends keep the histories in a Map of arrays and differ in the vendor they
\* call.  chat.vendor says that generateResponse calls the vendor's API (the OpenAI
\* backend always, the Gemini backend when GEMINI_API_KEY is configured); without it
\* the Gemini backend answers with a fallback reply and never waits.  A message is told
\* apart by the number of the call it belongs to.
Msg(role, no, text) == [role |-> role, no |-> no, text |-> text]

\* {role: 'user', content: message}, {role: 'assistant', content: response}
Exchange(no, text) == <<Msg("user", no, "message"), Msg("assistant", no, text)>>

\* the text of the catch branch (part_001 670, register-script.js 270)
Apology == "I apologize, but I'm experiencing some technical difficulties."

\* the state after construction of a chat backend
InitChat ==
    /\ dbConnected = FALSE
    /\ now = 0
    /\ live = [s \in Sockets |-> "live"]
    /\ connectedUsers = <<>>
    /\ waitingCalls = [s \in Sockets |-> {}]
    /\ users = [e \in Emails |-> IF e \in StaffEmails THEN "staff" ELSE "none"]
    /\ conversations = {}
    /\ calls = <<>>
    /\ demoCalls = [s \in Sockets |-> {}]
    /\ tasks = {}
    /\ inbox = [s \in Sockets |-> EmptyBag]
    /\ sent = EmptyBag
    /\ unanswered = {}
    /\ dashboard = [s \in Sockets |-> NewDashboard]
    /\ wire = NewWire
    /\ \E v \in BOOLEAN : chat = [NewChat EXCEPT !.vendor = v]
    /\ form = NewForm
    /\ nStart = 0 /\ nLogin = 0 /\ nDecision = 0 /\ nRelay = 0 /\ nLeave = 0

\* conversations.get(id) || []: the history stored for id
History(id) ==
    IF chat.conversations[id] = 0 THEN <<>> ELSE chat.arrays[chat.conversations[id]]

\* an array to which the user's message is pushed before the vendor is called
PushedFirst(conv, no) == Append(conv, Msg("user", no, "message"))

\* const messages = [system, ...conversation, user]: the request is built in a new
\* array and the history array is left as it is
Prepared(conv, no) == conv

\* conversation.push(user, assistant); if (conversation.length > 10)
\* conversation.splice(0, 2)
Update(conv, no, text) ==
    LET pushed == conv \o Exchange(no, text)
    IN IF Len(pushed) > HistoryLimit THEN SubSeq(pushed, 3, Len(pushed)) ELSE pushed

\* generateResponse(message, conversationId) up to its first await, for request req of
\* the form page (0 for any other client).  The call works on the array the Map holds
\* for the id, or on a new array when the Map has none.  Without a vendor it pushes
\* the fallback reply, trims, stores the array and returns.
generateResponse(id, req) ==
    /\ LET no == chat.n + 1
           fresh == chat.conversations[id] = 0
           conv == IF fresh THEN Len(chat.arrays) + 1 ELSE chat.conversations[id]
           heap == IF fresh THEN Append(chat.arrays, <<>>) ELSE chat.arrays
       IN IF chat.vendor
          THEN chat' = [chat EXCEPT
                            !.n = no,
                            !.arrays = [heap EXCEPT ![conv] = Prepared(@, no)],
                            !.calls = @ \cup {[no |-> no, id |-> id, conv |-> conv,
                                               req |-> req]}]
          ELSE chat' = [chat EXCEPT
                            !.n = no,
                            !.arrays = [heap EXCEPT ![conv] = Update(@, no, "fallback")],
                            !.conversations[id] = conv,
                            !.log[id] = @ \o Exchange(no, "fallback"),
                            !.replies = @ \cup {[no |-> no, id |-> id, req |-> req,
                                                 text |-> "fallback"]}]
    /\ UNCHANGED <<core, wire, dashboard>>

\* POST /api/chat from a page other than the form page
Chat(id) == generateResponse(id, 0) /\ UNCHANGED form

\* the vendor's API answers call c: push, trim, conversations.set, return the reply
VendorReplies(c) ==
    /\ c \in chat.calls
    /\ chat' = [chat EXCEPT
                    !.calls = @ \ {c},
                    !.arrays[c.conv] = Update(@, c.no, "reply"),
                    !.conversations[c.id] = c.conv,
                    !.log[c.id] = @ \o Exchange(c.no, "reply"),
                    !.replies = @ \cup {[no |-> c.no, id |-> c.id, req |-> c.req,
                                         text |-> "reply"]}]
    /\ UNCHANGED <<core, wire, form, dashboard>>

\* the vendor's API call of c throws: the catch returns the apology
VendorFails(c) ==
    /\ c \in chat.calls
    /\ chat' = [chat EXCEPT
                    !.calls = @ \ {c},
                    !.replies = @ \cup {[no |-> c.no, id |-> c.id, req |-> c.req,
                                         text |-> Apology]}]
    /\ UNCHANGED <<core, wire, form, dashboard>>

\* pages post messages for two conversations, up to MaxInFlight calls at a time
NextChat ==
    \/ /\ chat.n < MaxChats
       /\ Cardinality(chat.calls) < MaxInFlight
       /\ \E id \in ConversationIds : Chat(id)
    \/ \E c \in chat.calls : VendorReplies(c)
    \/ \E c \in chat.calls : VendorFails(c)

SpecChat == InitChat /\ [][NextChat]_vars

\* ---- the form-based chat page (script.js 895-1224) ------------------------------------
\* the messages typed into the form, after trim()
Typed == {"", "hi"}

\* the conversation id the page generated in its constructor
PageConversation == "conv_1"

\* a submit handler that looks at the message only
Blank(f, message) == message = ""

\* if (!message || this.isProcessing) return; (script.js 1010)
Refused(f, message) == message = "" \/ f.isProcessing

\* setLoading(loading) (script.js 1218-1224): this.isProcessing = loading
setLoading(f, loading) == [f EXCEPT !.isProcessing = loading]

\* handleSubmit(e) up to the await (script.js 1006-1023): the guard, setLoading(true)
\* and sendMessage's fetch('/api/chat', ...)
handleSubmit(message) ==
    /\ LET f == [form EXCEPT !.submits = @ + 1]
           req == form.requests + 1
       IN IF Refused(form, message)
          THEN form' = [f EXCEPT !.ignored = IF message = "" THEN @ ELSE @ + 1]
          ELSE form' = [setLoading(f, TRUE) EXCEPT !.requests = req,
                                                   !.posted = @ \cup {req},
                                                   !.pending = @ \cup {req}]
    /\ UNCHANGED <<core, wire, chat, dashboard>>

\* app.post('/api/chat') (part_001 675-691): the request of the page reaches the
\* server, which calls generateResponse
PostChat(req) ==
    /\ req \in form.posted
    /\ form' = [form EXCEPT !.posted = @ \ {req}]
    /\ generateResponse(PageConversation, req)

\* sendMessage resolves with data.response (script.js 1059-1063), the reply is shown,
\* and finally setLoading(false) (1024-1040)
Answered(req) ==
    /\ req \in form.pending
    /\ \E r \in chat.replies : r.req = req
    /\ form' = [setLoading(form, FALSE) EXCEPT !.pending = @ \ {req},
                                               !.settled = @ \cup {[req |-> req, how |-> "ok"]}]
    /\ UNCHANGED <<core, wire, chat, dashboard>>

\* fetch rejects or the status is not ok (script.js 1059-1061): the catch shows the
\* error, and finally setLoading(false) (1033-1040)
Failed(req) ==
    /\ req \in form.pending
    /\ form' = [setLoading(form, FALSE) EXCEPT
                    !.pending = @ \ {req},
                    !.settled = @ \cup {[req |-> req, how |-> "failed"]}]
    /\ UNCHANGED <<core, wire, chat, dashboard>>

\* one form page and its backend
NextForm ==
    \/ form.submits < MaxSubmits /\ \E m \in Typed : handleSubmit(m)
    \/ \E req \in form.posted : PostChat(req)
    \/ \E c \in chat.calls : VendorReplies(c)
    \/ \E c \in chat.calls : VendorFails(c)
    \/ \E req \in form.pending : Answered(req)
    \/ \E req \in form.pending : Failed(req)

SpecForm == InitChat /\ [][NextForm]_vars

\* ---- what the sockets have observed ----------------------------------------------------
Got(s) == BagToSet(inbox[s])

\* the events of kind ev about call cid among those delivered to socket s
About(s, ev, cid) == {e \in Got(s) : e.ev = ev /\ e.callId = {cid}}

\* how many events of kind ev about call cid socket s has received
Count(s, ev, cid) ==
    BagCardinality([e \in About(s, ev, cid) |-> inbox[s][e]])

InFlight(h, cid) == {tk \in tasks : tk.h = h /\ tk.callId = {cid}}

RECURSIVE Total(_, _, _)
\* how many events of kind ev about call cid the sockets of S have received together
Total(S, ev, cid) ==
    IF S = {} THEN 0
    ELSE LET s == CHOOSE x \in S : TRUE
         IN Count(s, ev, cid) + Total(S \ {s}, ev, cid)

\* the _id of the user registered for socket s
UserAt(s) == {u.id : u \in CUGet(connectedUsers, s)}

\* the sockets told call-started for call cid
Winners(cid) == {s \in Sockets : About(s, "call-started", cid) # {}}

\* ---- C1 ----------------------------------------------------------------------------------
\* C1: at-most-one acceptance.  For every call, at most one staff socket is told
\* call-started, once; when no accept-call handler for the call is in flight that
\* socket's user is the call's stored staff; and no accept-call of a logged-in staff
\* for a call that is no longer waiting returns without an error answer.
C1_ExactlyOneAcceptance ==
    \A cid \in 1..Len(calls) :
        /\ Cardinality(Winners(cid)) <= 1
        /\ \A s \in Winners(cid) : Count(s, "call-started", cid) = 1
        /\ InFlight("accept", cid) = {} =>
              \A s \in Winners(cid) : calls[cid].staffId = UserAt(s)
        /\ \A r \in unanswered :
              ~(r.ev = "accept-call" /\ r.callId = cid /\ r.why = "state")

\* ---- C2 ----------------------------------------------------------------------------------
\* C2: the visitor of a call receives at most one call-accepted for it, exactly one
\* once the call has a staff and no accept-call handler for it is in flight, and the
\* staff that event names is the staff stored in the call.
C2_OneCallAcceptedNamingWinner ==
    \A cid \in 1..Len(calls) :
        /\ Total(Sockets, "call-accepted", cid) <= 1
        /\ (InFlight("accept", cid) = {} /\ calls[cid].staffId # {}) =>
              /\ Total(Sockets, "call-accepted", cid) = 1
              /\ \A s \in Sockets : \A e \in About(s, "call-accepted", cid) :
                    calls[cid].staffId = {DbUserId(e.who)}

\* ---- C3 ----------------------------------------------------------------------------------
\* the sockets whose accept-call handler has written its acceptance of call cid
Acceptors(cid) ==
    Winners(cid) \cup {tk.sock : tk \in {x \in InFlight("accept", cid) : x.pc = "finish"}}

\* C3: a waiting call has no staffId; an in-progress call has a staffId, written by
\* exactly one accept-call handler.
C3_StaffReference ==
    \A cid \in 1..Len(calls) :
        /\ calls[cid].status = "waiting" => calls[cid].staffId = {}
        /\ calls[cid].status = "in-progress" =>
              /\ Cardinality(calls[cid].staffId) = 1
              /\ Cardinality(Acceptors(cid)) = 1

\* ---- C4 ----------------------------------------------------------------------------------
Terminal(c) == c.status \in {"completed", "rejected"}

\* C4: terminal immutability.  In every step, a call that is completed or rejected
\* keeps all its stored fields, no accept-call or call-decision for it passes the
\* handler's checks, and none sent by a staff returns without an error answer.
C4_TerminalImmutability ==
    [][\A cid \in 1..Len(calls) :
          Terminal(calls[cid]) =>
             /\ calls'[cid] = calls[cid]
             /\ \A tk \in tasks' \ tasks :
                   (tk.h \in {"accept", "decision"} /\ tk.pc = "save") => tk.callId # {cid}
             /\ \A r \in unanswered' \ unanswered : r.callId = cid => r.why = "role"
      ]_vars

\* ---- C5 ----------------------------------------------------------------------------------
ValidTransitions ==
    {<<"waiting", "in-progress">>, <<"waiting", "rejected">>,
     <<"in-progress", "completed">>, <<"in-progress", "rejected">>}

\* C5: every call is created waiting, and in every step the stored status of a call
\* stays as it is or changes along one of the four transitions.
C5_ValidTransitions ==
    [][/\ \A cid \in 1..Len(calls') :
             IF cid > Len(calls)
             THEN calls'[cid].status = "waiting"
             ELSE \/ calls'[cid].status = calls[cid].status
                  \/ <<calls[cid].status, calls'[cid].status>> \in ValidTransitions
       /\ \A s \in Sockets : \A c \in demoCalls'[s] \ demoCalls[s] : c.status = "waiting"
      ]_vars

\* ---- C6 ----------------------------------------------------------------------------------
\* C6: in every step, a call-decision passes the handler's checks only for a call that
\* is in-progress and whose staffId is the sender's user, and a call-decision of a
\* logged-in staff for an existing call never returns without an error answer.
C6_DecisionOnlyByOwnerInProgress ==
    [][/\ \A tk \in tasks' \ tasks :
             (tk.h = "decision" /\ tk.pc = "save") =>
                \A cid \in tk.callId :
                   /\ calls[cid].status = "in-progress"
                   /\ calls[cid].staffId = {u.id : u \in tk.user}
       /\ \A r \in unanswered' \ unanswered :
             r.ev = "call-decision" => r.why \in {"role", "missing"}
      ]_vars

\* ---- C7 ----------------------------------------------------------------------------------
\* no handler of socket s is in flight
Quiet(s) == \A tk \in tasks : tk.sock # s

\* the sockets told conversation-started for call cid
VisitorOf(cid) == {s \in Sockets : About(s, "conversation-started", cid) # {}}

\* C7: once a visitor socket has disconnected and its handlers have finished, no call
\* it started is still waiting, with the database and in demo mode.
C7_WaitingCallOfGoneVisitor ==
    \A s \in Sockets :
        (live[s] = "gone" /\ Quiet(s)) =>
            /\ \A cid \in 1..Len(calls) : s \in VisitorOf(cid) => calls[cid].status # "waiting"
            /\ \A c \in demoCalls[s] : c.status # "waiting"

\* ---- C8 ----------------------------------------------------------------------------------
LifecycleEvents ==
    {"new-call-request", "conversation-started", "call-accepted", "call-started",
     "call-completed", "decision-saved"}

\* the events about call cid that socket s received and that tell of its end by a
\* disconnect
Notices(s, cid) == {e \in Got(s) : e.callId = {cid} /\ e.ev \notin LifecycleEvents}

\* the parties of call cid that were told of its acceptance
AcceptedVisitor(cid) == {s \in Sockets : About(s, "call-accepted", cid) # {}}
Parties(cid) == AcceptedVisitor(cid) \cup Winners(cid)

\* C8: when a party of an accepted call with no decision has disconnected and no
\* handler is in flight, the call is rejected and each other party that is still
\* connected has received exactly one notice of it.
C8_InProgressPartyLeft ==
    \A cid \in 1..Len(calls) : \A s \in Parties(cid) :
        (live[s] = "gone" /\ tasks = {} /\ calls[cid].decision = "pending") =>
            /\ calls[cid].status = "rejected"
            /\ \A o \in Parties(cid) \ {s} :
                  live[o] = "live" =>
                     BagCardinality([e \in Notices(o, cid) |-> inbox[o][e]]) = 1

\* ---- C9 ----------------------------------------------------------------------------------
\* sockets s and t are the visitor and the staff of one in-progress call
BoundPair(s, t) ==
    \E cid \in 1..Len(calls) :
        /\ calls[cid].status = "in-progress"
        /\ \/ UserAt(s) = {calls[cid].clientId} /\ UserAt(t) = calls[cid].staffId
           \/ UserAt(t) = {calls[cid].clientId} /\ UserAt(s) = calls[cid].staffId

\* C9: in every step, a signaling event newly delivered to a socket t comes from a
\* connected socket s bound to t by an in-progress call.
C9_RelayOnlyBetweenBoundPair ==
    [][\A t \in Sockets : \A e \in BagToSet(inbox'[t]) :
          (e.ev \in Kinds /\ CopiesIn(e, inbox'[t]) > CopiesIn(e, inbox[t])) =>
             \E s \in e.from : live[s] = "live" /\ live[t] = "live" /\ BoundPair(s, t)
      ]_vars

\* ---- C10 ---------------------------------------------------------------------------------
\* the event a target receives for message m, written out field by field
Forwarded(m) ==
    [ev |-> m.kind, callId |-> {}, who |-> "", from |-> {m.from},
     payload |-> m.payload, notes |-> "", count |-> 0]

\* C10: every signaling event a socket t holds is the forwarding of a message that its
\* from socket emitted for t, with that message's kind and payload, no more often than
\* it was emitted; and a target that is still connected holds every message emitted
\* for it.
C10_RelayedVerbatim ==
    /\ \A t \in Sockets : \A e \in Got(t) :
          e.ev \in Kinds =>
             \E m \in BagToSet(sent) :
                /\ m.target = t
                /\ e = Forwarded(m)
                /\ CopiesIn(e, inbox[t]) <= CopiesIn(m, sent)
    /\ \A m \in BagToSet(sent) :
          (m.target \in Sockets /\ live[m.target] = "live") =>
             CopiesIn(Forwarded(m), inbox[m.target]) = CopiesIn(m, sent)

\* a socket holds an answer and an ice-candidate forwarded from different sockets
C10_Witness ==
    \E t \in Sockets : \E e1, e2 \in Got(t) :
        /\ e1.ev = "answer" /\ e2.ev = "ice-candidate"
        /\ e1.from # e2.from /\ e1.from # {t} /\ e2.from # {t}
        /\ e1.payload # e2.payload

\* ---- C11 ---------------------------------------------------------------------------------
\* C11: in every step in which a socket emits a signaling message for a target that has
\* disconnected, no socket receives anything, no call, registry or collection changes,
\* no handler is left in flight, and the sender stays connected.
C11_GoneTargetDrops ==
    [][\A m \in BagToSet(sent') :
          (CopiesIn(m, sent') > CopiesIn(m, sent) /\ live[m.target] = "gone") =>
             /\ inbox' = inbox
             /\ calls' = calls /\ demoCalls' = demoCalls /\ users' = users
             /\ conversations' = conversations
             /\ connectedUsers' = connectedUsers /\ waitingCalls' = waitingCalls
             /\ tasks' = tasks /\ unanswered' = unanswered
             /\ live' = live /\ live[m.from] = "live"
      ]_vars

\* a socket has emitted for a target that had left, which holds nothing of it, and the
\* same socket has a message delivered to a connected target
C11_Witness ==
    \E m, m2 \in BagToSet(sent) :
        /\ live[m.target] = "gone" /\ live[m.from] = "live"
        /\ CopiesIn(Forwarded(m), inbox[m.target]) = 0
        /\ m2.from = m.from /\ m2.target # m.from /\ live[m2.target] = "live"
        /\ CopiesIn(Forwarded(m2), inbox[m2.target]) = 1

StaffSockets ==
    {s \in Sockets : live[s] = "live" /\ \E u \in CUGet(connectedUsers, s) : u.role = "staff"}

\* this step is the one in which start-conversation announces call cid
Announcing(cid) ==
    \/ \E tk \in tasks \ tasks' : tk.h = "start" /\ tk.pc = "finish" /\ tk.callId = {cid}
    \/ \E s \in Sockets : \E c \in demoCalls'[s] \ demoCalls[s] : c.id = cid

\* C13: in the step in which start-conversation announces a new call, every connected
\* socket registered as staff receives one new-call-request carrying the call's id.
C13_AnnouncedToEveryStaff ==
    [][\A cid \in 0..Len(calls) :
          Announcing(cid) =>
             \A s \in StaffSockets :
                Count(s, "new-call-request", cid)' = Count(s, "new-call-request", cid) + 1
      ]_vars

\* both dashboards had logged in and been told that no call waits before the call was
\* stored, and each holds its new-call-request
C13_Witness ==
    \E cid \in 1..Len(calls) :
        /\ calls[cid].status = "waiting"
        /\ StaffSockets = {"s1", "s2"}
        /\ \A s \in StaffSockets :
              /\ \E e \in Got(s) : e.ev = "waiting-calls" /\ e.count = 0
              /\ Count(s, "new-call-request", cid) = 1

\* ---- C14 ---------------------------------------------------------------------------------
\* C14: once a staff's login handler has finished, every call that is waiting and whose
\* start-conversation handler has finished is in the dashboard's queue, so that the
\* staff can accept it.
C14_LateStaffSeesWaitingCalls ==
    \A s \in StaffSockets : \A cid \in 1..Len(calls) :
        (/\ calls[cid].status = "waiting"
         /\ InFlight("start", cid) = {}
         /\ \A tk \in tasks : ~(tk.h = "login" /\ tk.sock = s)) =>
            cid \in Announced(s)

\* ---- C15 ---------------------------------------------------------------------------------
\* C15: in every reachable state, a socket that holds a call-accepted or a
\* call-completed event of a call is the socket that started that call.
C15_OnlyToTheCallsVisitor ==
    \A s \in Sockets : \A cid \in 1..Len(calls) :
        (About(s, "call-accepted", cid) \cup About(s, "call-completed", cid)) # {} =>
            s \in VisitorOf(cid)

\* ---- C16 ---------------------------------------------------------------------------------
\* C16: in every reachable state, no accept-call that a logged-in staff sent for a call
\* that is already claimed, terminal or nonexistent has returned without an answer.
C16_AcceptAlwaysAnswered ==
    \A r \in unanswered :
        r.ev = "accept-call" => r.why \notin {"state", "missing"}

\* ---- C17 ---------------------------------------------------------------------------------
\* C17: in every reachable state, no stored call, with the database or in demo mode, has
\* an empty purpose, and no socket holds a new-call-request or a conversation-started
\* of a call without purpose.
C17_NoCallWithoutPurpose ==
    /\ \A cid \in 1..Len(calls) : calls[cid].purpose # ""
    /\ \A s \in Sockets :
          /\ \A c \in demoCalls[s] : c.purpose # ""
          /\ \A e \in Got(s) :
                e.ev \in {"new-call-request", "conversation-started"} => e.payload # ""

\* ---- C18 ---------------------------------------------------------------------------------
\* the in-progress calls whose staffId is user uid
HeldBy(uid) ==
    {cid \in 1..Len(calls) : calls[cid].status = "in-progress" /\ calls[cid].staffId = {uid}}

\* C18: in every reachable state, the staff user of a socket is the staff of at most one
\* in-progress call.
C18_OneCallPerStaff ==
    \A s \in Sockets : \A uid \in UserAt(s) : Cardinality(HeldBy(uid)) <= 1

\* ---- C19 ---------------------------------------------------------------------------------
Active(c) == c.status \in {"waiting", "in-progress"}

\* the stored calls that socket s started: its start-conversation handler is about to
\* announce them or has answered conversation-started
OriginatedBy(s) ==
    {cid \in 1..Len(calls) :
        s \in VisitorOf(cid) \/ \E tk \in InFlight("start", cid) : tk.sock = s}

\* C19: in every reachable state, at most one of the stored calls a socket started is
\* waiting or in-progress, with the database and in demo mode.
C19_OneActiveCallPerVisitor ==
    \A s \in Sockets :
        /\ Cardinality({cid \in OriginatedBy(s) : Active(calls[cid])}) <= 1
        /\ Cardinality({c \in demoCalls[s] : Active(c)}) <= 1

\* a socket whose call is active sent start-conversation again and was refused
C19_Witness ==
    \E s \in Sockets :
        /\ \E cid \in OriginatedBy(s) : Active(calls[cid])
        /\ \E e \in Got(s) : e.ev = "error" /\ e.payload = "Failed to start conversation"

\* ---- C20 ---------------------------------------------------------------------------------
\* C20: in every reachable state, a completed call whose endTime is not before its
\* startTime has a stored duration, in seconds, equal to endTime minus startTime and
\* greater than 0.
C20_DurationIsElapsedTime ==
    \A cid \in 1..Len(calls) :
        calls[cid].status = "completed" =>
            \A st \in calls[cid].startTime, en \in calls[cid].endTime :
                en >= st =>
                    /\ calls[cid].duration # {}
                    /\ \A d \in calls[cid].duration :
                          d * 1000 = (en - st) * TickMs /\ d > 0

\* ---- C21 ---------------------------------------------------------------------------------
\* C21: the save of a call-decision handler leaves call cid completed with the decision
\* and the notes of the request; in the step in which the handler then answers, the
\* staff socket receives one decision-saved carrying cid and the decision, and each
\* connected socket that started call cid receives one call-completed carrying the
\* same decision and notes.
C21_DecisionRecordedAndTold ==
    [][\A tk \in tasks \ tasks' :
          tk.h = "decision" =>
             \A cid \in tk.callId :
                LET saved == [Event("decision-saved") EXCEPT
                                 !.callId = {cid}, !.payload = tk.decision]
                    completed == [Event("call-completed") EXCEPT
                                     !.callId = {cid}, !.payload = tk.decision,
                                     !.notes = tk.notes]
                IN /\ tk.pc = "save" =>
                         /\ calls'[cid].status = "completed"
                         /\ calls'[cid].decision = tk.decision
                         /\ calls'[cid].notes = tk.notes
                   /\ (tk.pc = "finish" /\ live[tk.sock] = "live") =>
                         CopiesIn(saved, inbox'[tk.sock]) = CopiesIn(saved, inbox[tk.sock]) + 1
                   /\ tk.pc = "finish" =>
                         \A v \in VisitorOf(cid) :
                            live[v] = "live" =>
                               CopiesIn(completed, inbox'[v])
                                  = CopiesIn(completed, inbox[v]) + 1
      ]_vars

\* ---- C23 ---------------------------------------------------------------------------------
\* C23: in every step, a stored call whose fields change is the call of the handler that
\* made the step: an accept-call, call-decision or disconnect handler, successful or not,
\* leaves every field of every other call as it was, and no step removes a call.
C23_OtherCallsUntouched ==
    [][/\ Len(calls') >= Len(calls)
       /\ \A b \in 1..Len(calls) :
             calls'[b] # calls[b] =>
                \E tk \in tasks \ tasks' :
                   /\ tk.h \in {"accept", "decision", "disconnect"}
                   /\ tk.callId = {b}
      ]_vars

\* call 1 was rejected by the disconnect of its visitor and call 2 was accepted and
\* decided, each with the fields its own handlers wrote
C23_Witness ==
    /\ Len(calls) = 2
    /\ calls[1].status = "rejected" /\ calls[1].staffId = {} /\ calls[1].decision = "pending"
    /\ calls[2].status = "completed" /\ calls[2].staffId # {} /\ calls[2].decision = "accepted"

\* ---- C24 ---------------------------------------------------------------------------------
\* C24: in every step, a socket that has an entry in connectedUsers keeps that entry
\* (or loses it), and receives neither login-success nor conversation-started: a
\* staff-login or start-conversation on a registered connection does not register it again.
C24_NoSecondRegistration ==
    [][\A s \in Sockets :
          CUGet(connectedUsers, s) # {} =>
             /\ CUGet(connectedUsers', s) \subseteq CUGet(connectedUsers, s)
             /\ \A e \in BagToSet(inbox'[s]) :
                   e.ev \in {"login-success", "conversation-started"} =>
                      CopiesIn(e, inbox'[s]) = CopiesIn(e, inbox[s])
      ]_vars

\* ---- C26 ---------------------------------------------------------------------------------
\* the sockets that are unregistered or registered with a role other than staff
NonStaff(s) == \A u \in CUGet(connectedUsers, s) : u.role # "staff"

\* the sockets that were answered login-success
LoggedIn == {s \in Sockets : \E e \in Got(s) : e.ev = "login-success"}

\* C26: a socket whose connectedUsers entry has role staff has been answered
\* login-success, and so has every socket with an accept-call or call-decision handler
\* that passed the role check and is in flight.
C26_StaffOnlyByLogin ==
    /\ \A s \in Sockets : ~NonStaff(s) => s \in LoggedIn
    /\ \A tk \in tasks : tk.h \in {"accept", "decision"} => tk.sock \in LoggedIn

\* ---- C27 ---------------------------------------------------------------------------------
\* the error answers of accept-call and call-decision
HandlerErrors(s) ==
    {e \in Got(s) : e.ev = "error"
                    /\ e.payload \in {"Failed to accept call", "Failed to save decision"}}

Originated(s) ==
    {cid \in 1..Len(calls) : cid \in waitingCalls[s] \/ s \in VisitorOf(cid)}

\* C25: once a socket has disconnected and none of its handlers is in flight, it has no
\* entry in connectedUsers and none in waitingCalls, and no call it started is waiting,
\* with the database and in demo mode.
C25_NothingLeftOfGoneSocket ==
    \A s \in Sockets :
        (live[s] = "gone" /\ Quiet(s)) =>
            /\ CUGet(connectedUsers, s) = {}
            /\ waitingCalls[s] = {}
            /\ \A cid \in Originated(s) : calls[cid].status # "waiting"
            /\ \A c \in demoCalls[s] : c.status # "waiting"

\* ---- C28 ---------------------------------------------------------------------------------
\* C28: in every step, a socket that receives a new-call-request is registered with role
\* staff and has been answered login-success.
C28_AnnouncedToStaffOnly ==
    [][\A s \in Sockets :
          \A e \in BagToSet(inbox'[s]) :
             (e.ev = "new-call-request" /\ CopiesIn(e, inbox'[s]) > CopiesIn(e, inbox[s])) =>
                (~NonStaff(s) /\ CUGet(connectedUsers, s) # {} /\ s \in LoggedIn)
      ]_vars

\* ---- C22 ---------------------------------------------------------------------------------
\* C22: once a dashboard has ended, with its end-call button, the call that the server
\* told it had started, and no handler is in flight, the call (of which the
\* dashboard's user is still the stored staff) is completed or rejected and every
\* connected socket that started it has been told of its end.
C22_EndCallEndsTheCall ==
    \A s \in Sockets :
        \A e \in dashboard[s].emitted :
            (e.ev = "end-call" /\ e.started /\ tasks = {}) =>
                \A cid \in e.current :
                    calls[cid].staffId = UserAt(s) =>
                        /\ Terminal(calls[cid])
                        /\ \A v \in VisitorOf(cid) :
                              live[v] = "live" =>
                                 About(v, "call-completed", cid) \cup Notices(v, cid) # {}

\* ---- C29 ---------------------------------------------------------------------------------
\* C29: every call-decision a dashboard emits carries as callId the id of the call the
\* dashboard is on, that is the call it accepted, whether or not call-started has
\* been handled before the decision.
C29_DecisionNamesAcceptedCall ==
    \A s \in Sockets :
        \A e \in dashboard[s].emitted :
            e.ev = "call-decision" => (e.current # {} /\ e.callId = e.current)

\* ---- C30 ---------------------------------------------------------------------------------
\* C30: every ice-candidate emitted by a dashboard has as target a socket that started a
\* call the dashboard accepted, and the relay has delivered it there when that socket
\* is connected.
C30_CandidateGoesToVisitor ==
    \A m \in BagToSet(sent) :
        (m.kind = "ice-candidate" /\ dashboard[m.from].emitted # {}) =>
            /\ \E e \in dashboard[m.from].emitted :
                  e.ev = "accept-call" /\ \E cid \in e.current : m.target \in VisitorOf(cid)
            /\ (m.target \in Sockets /\ live[m.target] = "live") =>
                  CopiesIn(Forwarded(m), inbox[m.target]) >= 1

\* ---- C31 ---------------------------------------------------------------------------------
\* C31: when no handler is in flight and a dashboard has handled every call-started it
\* was sent, the call it holds as currentCall is a stored call that is in progress with
\* the dashboard's user as its staff.
C31_CurrentCallIsBound ==
    \A s \in Sockets :
        (tasks = {} /\ Unhandled(s, "call-started") = {}) =>
            \A c \in dashboard[s].currentCall :
                \A cid \in c.id \cup c.callId :
                    /\ cid \in 1..Len(calls)
                    /\ calls[cid].status = "in-progress"
                    /\ calls[cid].staffId = UserAt(s)

\* ---- C32 ---------------------------------------------------------------------------------
\* C32: when no handler is in flight, every stored call with status waiting, with the
\* database or in demo mode, is the waitingCalls entry of a socket, and every
\* waitingCalls entry is a stored call with status waiting.
C32_WaitingCallsMatchesStore ==
    tasks = {} =>
        /\ \A cid \in 1..Len(calls) :
              calls[cid].status = "waiting" => \E s \in Sockets : cid \in waitingCalls[s]
        /\ \A s \in Sockets :
              \A c \in demoCalls[s] : c.status = "waiting" => waitingCalls[s] # {}
        /\ \A s \in Sockets :
              \A cid \in waitingCalls[s] :
                  cid \in 1..Len(calls) /\ calls[cid].status = "waiting"

\* ---- C33 ---------------------------------------------------------------------------------
\* the identifiers of the stored calls: the _id of each Call document and of each demo
\* call
StoredCallIds ==
    {[mode |-> "db", id |-> cid] : cid \in 1..Len(calls)}
       \cup {[mode |-> "demo", id |-> c.id] : c \in UNION {demoCalls[s] : s \in Sockets}}

\* C33: the stored calls have as many identifiers as there are calls: no two Call
\* documents and no two demo calls of different sockets have the same _id.
C33_CallIdsDistinct ==
    /\ Cardinality({x \in StoredCallIds : x.mode = "db"}) = Len(calls)
    /\ \A s, t \in Sockets :
          \A c \in demoCalls[s], d \in demoCalls[t] : c.id = d.id => s = t

\* the numbers of the events of sender s among those socket t has received
FromAt(s, t) ==
    LET q == SelectSeq(wire.got[t], LAMBDA e : e.ev.from = {s})
    IN [i \in 1..Len(q) |-> q[i].no]

\* C34: the events one sender addressed to one target reach the target in the order
\* the sender emitted them, whatever the other connections do in between: among what
\* a socket has received, the events of one sender carry increasing emission numbers,
\* and each is the event the sender emitted under that number to this socket.
C34_RelayedInOrder ==
    \A s, t \in Sockets :
        /\ \A i, j \in 1..Len(FromAt(s, t)) : i < j => FromAt(s, t)[i] < FromAt(s, t)[j]
        /\ \A i \in 1..Len(wire.got[t]) :
               LET e == wire.got[t][i]
               IN e.ev.from = {s} =>
                      /\ e.no \in 1..Len(wire.out[s])
                      /\ wire.out[s][e.no].target = t
                      /\ wire.out[s][e.no].kind = e.ev.ev
                      /\ wire.out[s][e.no].payload = e.ev.payload

\* s1 has received two events of s2 while an event of s1 travelled in between
C34_Witness ==
    /\ Len(FromAt("s2", "s1")) = 2
    /\ Len(wire.out["s1"]) = 1
    /\ wire.got["s1"][1].ev.ev # wire.got["s1"][2].ev.ev

\* the last n elements of q
LastN(q, n) == IF Len(q) > n THEN SubSeq(q, Len(q) - n + 1, Len(q)) ELSE q

\* C35: in the in-memory chat backends the stored history of a conversation never
\* holds more than 10 messages, and it is the most recent user/assistant pairs of the
\* calls that got a reply for that conversation, in order.
C35_HistoryIsLastPairs ==
    \A id \in ConversationIds :
        /\ Len(History(id)) <= HistoryLimit
        /\ History(id) = LastN(chat.log[id], HistoryLimit)

\* the stored histories are the same before and after the step
HistoriesKept == \A id \in ConversationIds : History(id)' = History(id)

\* C36: when the vendor's API call fails, generateResponse returns the fixed apology
\* text, and neither the step that sends the request to the vendor nor the step in
\* which the call fails changes the stored history of any conversation.
C36_FailureChangesNoHistory ==
    [][/\ \A c \in chat.calls :
              VendorFails(c) =>
                  /\ HistoriesKept
                  /\ \E r \in chat'.replies \ chat.replies :
                         r.no = c.no /\ r.id = c.id /\ r.text = Apology
       /\ (chat.vendor /\ chat'.n = chat.n + 1) => HistoriesKept]_vars

\* a call for a conversation with a stored history has failed while the other
\* conversation had a history too, and no message of the failed call is stored
C36_Witness ==
    \E r \in chat.replies :
        /\ r.text = Apology
        /\ \A id \in ConversationIds :
               /\ History(id) # <<>>
               /\ \A i \in 1..Len(History(id)) : History(id)[i].no # r.no
        /\ \E i \in 1..Len(History(r.id)) : History(r.id)[i].no < r.no

\* C37: the form page has at most one chat request in flight: a step taken while
\* isProcessing is true sends no request, at most one request is unsettled, and
\* isProcessing is true exactly while a request is unsettled, so it is false again
\* after every request, whether the request succeeded or failed.
C37_OneRequestInFlight ==
    [][/\ form.isProcessing => form'.requests = form.requests
       /\ Cardinality(form'.pending) <= 1
       /\ form'.isProcessing <=> form'.pending # {}]_vars

\* a submit with a message was ignored while a request was in flight, one request has
\* succeeded and one has failed, and the page is not processing
C37_Witness ==
    /\ form.ignored >= 1
    /\ \E a, b \in form.settled : a.how = "ok" /\ b.how = "failed"
    /\ ~form.isProcessing
    /\ form.pending = {}

====
